---- MODULE Spec2Model ----
(***************************************************************************)
(* Behavioural analytics engine of participation-architecture:             *)
(*   src/analysis.py       BehavioralAnalyzer                              *)
(*   src/src/targeting.py  WhaleSniper(BehavioralAnalyzer)                 *)
(*   src/collector.py      SnapshotCollector (shape of the raw dataset)    *)
(*                                                                         *)
(* Time is counted in ticks, TicksPerDay ticks to the day, so that the     *)
(* whole-day floor of a time difference (Series.dt.days) is a real         *)
(* conversion.  Wall-clock reads (datetime.now()) are monotone reads of    *)
(* the variable clock, which may advance between two reads.                *)
(***************************************************************************)
EXTENDS Integers, Sequences, FiniteSets, TLC

\* ------------------------------------------------------------------ bounds
TicksPerDay == 2
StrideTicks == 45
MaxRecent == 1
NumVoters == 2
MaxVP == 1
MaxProposals == 2
MaxVotes == 2
MaxDrift == 1

\* ------------------------------------------------------- program constants
Window30 == 30
Window90 == 90
TrendDays == 90
BurnoutFactor == 2
BreakScale == 30
BurnoutWeight == 50
DecliningWeight == 20
ScoreCap == 100
FatigueThreshold == 50
AtRiskScore == 60

\* the missing value of a DataFrame cell; every real cell of the columns it
\* can fill (avg_gap_days, total_votes) is >= 0
NaN == -1

\* ------------------------------------------------------------ raw dataset
Days(d) == d * TicksPerDay

\* The clock starts TrendDays after the oldest timestamp, so that the oldest
\* records sit on the 90-day boundaries; the other timestamps are the start
\* time and the strides before it.
NowStart == Days(TrendDays)
MaxClock == NowStart + MaxDrift
Times == {0} \cup {NowStart - k * StrideTicks : k \in 0..MaxRecent}
Voters == 1..NumVoters

SeqsUpTo(S, n) == UNION {[1..k -> S] : k \in 0..n}

\* a vote as fetch_votes returns it; the key vp may be missing
RawVotes == [voter : Voters, created : Times, vp : 1..MaxVP] \cup [voter : Voters, created : Times]

\* The order of a proposal's votes in its list is lost by the sort of
\* _prepare_dataframe except among votes of equal created, so only lists in
\* non-decreasing order of created are drawn.
VoteLists ==
    {vs \in SeqsUpTo(RawVotes, MaxVotes) :
        \A i \in 1..(Len(vs) - 1) : vs[i].created <= vs[i + 1].created}

\* fetch_proposals asks for orderBy created, orderDirection desc
CreatedDesc(cs) == \A i \in 1..(Len(cs) - 1) : cs[i] >= cs[i + 1]

\* the votes of a proposal are cast after it was created
CastAfter(cs, vs) ==
    \A k \in 1..Len(cs) : \A j \in 1..Len(vs[k]) : vs[k][j].created >= cs[k]

\* ------------------------------------------------------- generic helpers
Min(a, b) == IF a < b THEN a ELSE b

RECURSIVE SumSeq(_)
SumSeq(s) == IF Len(s) = 0 THEN 0 ELSE Head(s) + SumSeq(Tail(s))

RECURSIVE MaxSeq(_)
MaxSeq(s) == IF Len(s) = 1 THEN s[1]
             ELSE LET m == MaxSeq(Tail(s)) IN IF s[1] >= m THEN s[1] ELSE m

\* lexicographic strict order on equal-length integer tuples
RECURSIVE LexLess(_, _)
LexLess(a, b) ==
    IF Len(a) = 0 THEN FALSE
    ELSE IF Head(a) # Head(b) THEN Head(a) < Head(b)
         ELSE LexLess(Tail(a), Tail(b))

\* stable insertion of index i into perm, which is ordered by keys
RECURSIVE InsertIdx(_, _, _)
InsertIdx(perm, i, keys) ==
    IF Len(perm) = 0 THEN <<i>>
    ELSE IF LexLess(keys[i], keys[Head(perm)]) THEN <<i>> \o perm
         ELSE <<Head(perm)>> \o InsertIdx(Tail(perm), i, keys)

\* the stable ascending sort permutation of a sequence of key tuples
RECURSIVE SortPerm(_, _)
SortPerm(keys, n) ==
    IF n = 0 THEN <<>> ELSE InsertIdx(SortPerm(keys, n - 1), n, keys)

\* DataFrame.sort_values: rows reordered by their key tuples, ascending; rows
\* of equal key keep their order (a descending sort negates the keys)
SortValues(rows, keys) ==
    LET perm == SortPerm(keys, Len(rows))
    IN [k \in 1..Len(rows) |-> rows[perm[k]]]

\* round(num / den, digits) with scale = 10^digits, half to even
RoundScaled(num, den, scale) ==
    LET q == (num * scale) \div den
        r == (num * scale) % den
    IN IF 2 * r < den THEN q
       ELSE IF 2 * r > den THEN q + 1
       ELSE IF q % 2 = 0 THEN q ELSE q + 1

\* ------------------------------------------- BehavioralAnalyzer (analysis.py)
\* the rows appended for one proposal: one per vote, vp defaulting to 0
ProposalVotes(p) ==
    [k \in 1..Len(p.votes) |->
        [proposal_id      |-> p.id,
         proposal_created |-> p.created,
         voter            |-> p.votes[k].voter,
         vote_time        |-> p.votes[k].created,
         voting_power     |-> IF "vp" \in DOMAIN p.votes[k] THEN p.votes[k].vp ELSE 0]]

RECURSIVE VotesList(_)
VotesList(ps) ==
    IF Len(ps) = 0 THEN <<>> ELSE ProposalVotes(Head(ps)) \o VotesList(Tail(ps))

\* DataFrame(votes_list).sort_values("vote_time"): a frame built from an
\* empty list has no column vote_time, and sorting by it raises KeyError
HasColumn(votes_list) == Len(votes_list) > 0

\* variant: the frame is left in the order of the dataset
PrepareDataframe_Unsorted(d) == VotesList(d)

PrepareDataframe(d) ==
    LET votes_list == VotesList(d)
    IN SortValues(votes_list, [k \in 1..Len(votes_list) |-> <<votes_list[k].vote_time>>])

\* Series.nunique() of the column proposal_id of the rows numbered in rows
NUnique(df, rows) == Cardinality({df[k].proposal_id : k \in rows})

RecentProposals(df, now, window_days) ==
    LET cutoff_date == now - Days(window_days)
    IN NUnique(df, {k \in 1..Len(df) : df[k].proposal_created >= cutoff_date})

\* variant: the voter's in-window rows are counted, not their proposals
VoterVotes_Rows(df, voter, now, window_days) ==
    LET cutoff_date == now - Days(window_days)
    IN Cardinality({k \in 1..Len(df) : /\ df[k].voter = voter
                                      /\ df[k].proposal_created >= cutoff_date})

VoterVotes(df, voter, now, window_days) ==
    LET cutoff_date == now - Days(window_days)
    IN NUnique(df, {k \in 1..Len(df) : /\ df[k].voter = voter
                                        /\ df[k].proposal_created >= cutoff_date})

\* the float result as the fraction num / den; 0.0 is 0 / 1
CalculateParticipationRate(df, voter, now, window_days) ==
    LET recent_proposals == RecentProposals(df, now, window_days)
        voter_votes == VoterVotes(df, voter, now, window_days)
    IN IF recent_proposals = 0 THEN [num |-> 0, den |-> 1]
       ELSE [num |-> voter_votes, den |-> recent_proposals]

VoterData(df, voter) ==
    LET Mine(r) == r.voter = voter IN SelectSeq(df, Mine)

\* vote_time.diff().dt.days.dropna(): whole days between consecutive rows
Gaps(voter_data) ==
    [k \in 1..(Len(voter_data) - 1) |->
        (voter_data[k + 1].vote_time - voter_data[k].vote_time) \div TicksPerDay]

\* variant: recent_gap >= avg_gap * 2
BurnoutDetected_AtLeast(gaps) ==
    gaps[Len(gaps)] * Len(gaps) >= BurnoutFactor * SumSeq(gaps)

\* recent_gap > avg_gap * 2, with avg_gap = sum / count kept exact
BurnoutDetected(gaps) ==
    gaps[Len(gaps)] * Len(gaps) > BurnoutFactor * SumSeq(gaps)

\* variant: a vote at the midpoint counts as older
Trend_MidpointOlder(voter_data, now) ==
    LET midpoint == now - Days(TrendDays)
        recent_votes == Cardinality({k \in 1..Len(voter_data) : voter_data[k].vote_time > midpoint})
        older_votes == Cardinality({k \in 1..Len(voter_data) : voter_data[k].vote_time <= midpoint})
    IN IF older_votes > 0
       THEN (IF recent_votes < older_votes THEN "declining" ELSE "stable")
       ELSE "new_delegate"

Trend(voter_data, now) ==
    LET midpoint == now - Days(TrendDays)
        recent_votes == Cardinality({k \in 1..Len(voter_data) : voter_data[k].vote_time >= midpoint})
        older_votes == Cardinality({k \in 1..Len(voter_data) : voter_data[k].vote_time < midpoint})
    IN IF older_votes > 0
       THEN (IF recent_votes < older_votes THEN "declining" ELSE "stable")
       ELSE "new_delegate"

\* min(100, (longest_break / 30) * 30 + 50 * burnout + 20 * declining) rounded
\* to 2 places: the division and the product cancel, so the rounded score is
\* a whole number of points
FatigueScore(longest_break, burnout_detected, trend) ==
    Min(ScoreCap,
        ((longest_break * BreakScale) \div BreakScale)
        + (IF burnout_detected THEN BurnoutWeight ELSE 0)
        + (IF trend = "declining" THEN DecliningWeight ELSE 0))

InsufficientData ==
    [fatigue_score      |-> 0,
     longest_break_days |-> 0,
     burnout_detected   |-> FALSE,
     trend              |-> "insufficient_data"]

\* avg_gap_days is kept in tenths (round(avg_gap, 1))
CalculateFatigueIndex(df, voter, now) ==
    LET voter_data == VoterData(df, voter)
    IN IF Len(voter_data) < 2 THEN InsufficientData
       ELSE LET gaps == Gaps(voter_data)
                longest_break == MaxSeq(gaps)
                burnout_detected == BurnoutDetected(gaps)
                trend == Trend(voter_data, now)
            IN [fatigue_score      |-> FatigueScore(longest_break, burnout_detected, trend),
                longest_break_days |-> longest_break,
                avg_gap_days       |-> RoundScaled(SumSeq(gaps), Len(gaps), 10),
                burnout_detected   |-> burnout_detected,
                trend              |-> trend,
                total_votes        |-> Len(voter_data)]

\* Series.unique(): the distinct voters in order of first appearance
RECURSIVE UniqueVoters(_, _)
UniqueVoters(df, seen) ==
    IF Len(df) = 0 THEN <<>>
    ELSE IF Head(df).voter \in seen THEN UniqueVoters(Tail(df), seen)
         ELSE <<Head(df).voter>> \o UniqueVoters(Tail(df), seen \cup {Head(df).voter})

\* one results.append({...}) of analyze_all_delegates; participation in
\* thousandths (round(rate, 3))
DelegateRow(df, voter, now30, now90, nowMid) ==
    LET p30 == CalculateParticipationRate(df, voter, now30, Window30)
        p90 == CalculateParticipationRate(df, voter, now90, Window90)
        fatigue == CalculateFatigueIndex(df, voter, nowMid)
        head == [delegate          |-> voter,
                 participation_30d |-> RoundScaled(p30.num, p30.den, 1000),
                 participation_90d |-> RoundScaled(p90.num, p90.den, 1000)]
    IN [c \in DOMAIN head \cup DOMAIN fatigue |->
            IF c \in DOMAIN head THEN head[c] ELSE fatigue[c]]

\* pd.DataFrame(results): the columns are the union of the keys, a key a row
\* lacks is NaN in that row
Columns(rows) == UNION {DOMAIN rows[k] : k \in 1..Len(rows)}

DataFrame(rows) ==
    [k \in 1..Len(rows) |->
        [c \in Columns(rows) |-> IF c \in DOMAIN rows[k] THEN rows[k][c] ELSE NaN]]

\* df_results.sort_values("fatigue_score", ascending=False)
SortByFatigue(df) ==
    SortValues(df, [k \in 1..Len(df) |-> <<0 - df[k]["fatigue_score"]>>])

AnalyzeResult(rows) == SortByFatigue(DataFrame(rows))

\* get_health_summary over the analysed table; the means are kept in the
\* unit of their column (thousandths, points), rounded as the code rounds
Mean(df, col, scale) ==
    RoundScaled(SumSeq([k \in 1..Len(df) |-> df[k][col]]), Len(df), scale)

HealthSummary(df) ==
    LET rows == 1..Len(df)
    IN [total_delegates       |-> Len(df),
        avg_participation_30d |-> Mean(df, "participation_30d", 1),
        avg_fatigue_score     |-> Mean(df, "fatigue_score", 100),
        at_risk_delegates     |-> Cardinality({k \in rows : df[k]["fatigue_score"] > AtRiskScore}),
        active_delegates      |-> Cardinality({k \in rows : df[k]["participation_30d"] * 2 > 1000}),
        declining_delegates   |-> Cardinality({k \in rows : df[k]["trend"] = "declining"})]

\* ------------------------------------------------ WhaleSniper (targeting.py)
\* groupby("voter")["voting_power"].mean(), then astype(int)
AvgVotingPower(df, voter) ==
    LET voter_data == VoterData(df, voter)
    IN SumSeq([k \in 1..Len(voter_data) |-> voter_data[k].voting_power]) \div Len(voter_data)

\* df_metrics.merge(vp_map, left_on="delegate", right_index=True): an inner
\* join that keeps the order of df_metrics
Merge(df_metrics, df) ==
    LET Known(r) == \E k \in 1..Len(df) : df[k].voter = r["delegate"]
        joined == SelectSeq(df_metrics, Known)
    IN [k \in 1..Len(joined) |->
           [c \in DOMAIN joined[k] \cup {"avg_voting_power"} |->
               IF c = "avg_voting_power" THEN AvgVotingPower(df, joined[k]["delegate"])
               ELSE joined[k][c]]]

\* variant: either condition is enough
IsTarget_Either(r, min_vp) ==
    r["avg_voting_power"] >= min_vp \/ r["fatigue_score"] > FatigueThreshold

IsTarget(r, min_vp) ==
    r["avg_voting_power"] >= min_vp /\ r["fatigue_score"] > FatigueThreshold

\* variant: fatigue_score is the primary key
SortTargets_FatigueFirst(targets) ==
    SortValues(targets, [k \in 1..Len(targets) |->
        <<0 - targets[k]["fatigue_score"], 0 - targets[k]["avg_voting_power"]>>])

SortTargets(targets) ==
    SortValues(targets, [k \in 1..Len(targets) |->
        <<0 - targets[k]["avg_voting_power"], 0 - targets[k]["fatigue_score"]>>])

HighValueTargets(df_metrics, df, min_vp) ==
    IF Len(df_metrics) = 0 THEN df_metrics
    ELSE LET df_targets == Merge(df_metrics, df)
             Keep(r) == IsTarget(r, min_vp)
         IN SortTargets(SelectSeq(df_targets, Keep))

\* ------------------------------------------------------------------ state
VARIABLES
    data,       \* the raw dataset handed to the constructor: its proposals
    clock,      \* the wall clock, in ticks
    pc,         \* "loaded", "raised" (constructor raised), "ready", "analyzing", "done"
    df_votes,   \* self.df_votes
    call,       \* the public method in progress or finished, with its arguments
    results,    \* the list results of analyze_all_delegates
    reads,      \* per row of results, the three values datetime.now() returned
    out         \* what the finished call returned

vars == <<data, clock, pc, df_votes, call, results, reads, out>>

\* collect_full_dataset: the proposals with distinct ids, each with its votes
Proposals(cs, vs) ==
    [k \in 1..Len(cs) |-> [id |-> k, created |-> cs[k], votes |-> vs[k]]]

\* voters are opaque addresses: the first voter listed is voter 1
FirstVoter(ps) ==
    \A k \in 1..Len(ps) :
        (Len(ps[k].votes) > 0 /\ \A j \in 1..(k - 1) : Len(ps[j].votes) = 0)
            => ps[k].votes[1].voter = 1

MinVPs == 0..MaxVP
Windows == {Window30, Window90}
NoCall == [op |-> "none"]
Nothing == "nothing"

Init ==
    /\ \E n \in 0..MaxProposals :
       \E cs \in [1..n -> Times] :
       \E vs \in [1..n -> VoteLists] :
          /\ CreatedDesc(cs)
          /\ CastAfter(cs, vs)
          /\ data \in {Proposals(cs, vs)}
          /\ FirstVoter(data)
    /\ clock = NowStart
    /\ pc = "loaded"
    /\ df_votes = <<>>
    /\ call = NoCall
    /\ results = <<>>
    /\ reads = <<>>
    /\ out = Nothing

\* BehavioralAnalyzer.__init__
Construct ==
    /\ pc = "loaded"
    /\ IF HasColumn(VotesList(data))
       THEN pc' = "ready" /\ df_votes' = PrepareDataframe(data)
       ELSE pc' = "raised" /\ df_votes' = df_votes
    /\ UNCHANGED <<data, clock, call, results, reads, out>>

\* a direct call of calculate_participation_rate(voter, window_days)
CallParticipationRate ==
    /\ pc = "ready"
    /\ \E voter \in Voters, window_days \in Windows, now \in clock..MaxClock :
         /\ call' = [op |-> "calculate_participation_rate", voter |-> voter,
                     window_days |-> window_days, now |-> now]
         /\ out' = CalculateParticipationRate(df_votes, voter, now, window_days)
         /\ clock' = now
    /\ pc' = "done"
    /\ UNCHANGED <<data, df_votes, results, reads>>

\* a direct call of calculate_fatigue_index(voter)
CallFatigueIndex ==
    /\ pc = "ready"
    /\ \E voter \in Voters, now \in clock..MaxClock :
         /\ call' = [op |-> "calculate_fatigue_index", voter |-> voter, now |-> now]
         /\ out' = CalculateFatigueIndex(df_votes, voter, now)
         /\ clock' = now
    /\ pc' = "done"
    /\ UNCHANGED <<data, df_votes, results, reads>>

\* analyze_all_delegates is entered, directly or from get_health_summary or
\* get_high_value_targets(min_vp)
Begin(op, min_vp) ==
    /\ pc = "ready"
    /\ pc' = "analyzing"
    /\ call' = [op |-> op, min_vp |-> min_vp]
    /\ results' = <<>>
    /\ reads' = <<>>
    /\ UNCHANGED <<data, clock, df_votes, out>>

BeginAnalyze == Begin("analyze_all_delegates", 0)
BeginSummary == Begin("get_health_summary", 0)
BeginTargets == \E min_vp \in MinVPs : Begin("get_high_value_targets", min_vp)

\* one iteration of the loop over unique_voters: datetime.now() is read by
\* each of the two calculate_participation_rate calls and by
\* calculate_fatigue_index, and the clock may advance before each read
AnalyzeVoter ==
    /\ pc = "analyzing"
    /\ LET unique_voters == UniqueVoters(df_votes, {})
       IN /\ Len(results) < Len(unique_voters)
          /\ \E now30 \in clock..MaxClock :
             \E now90 \in now30..MaxClock :
             \E nowMid \in now90..MaxClock :
               LET voter == unique_voters[Len(results) + 1]
               IN /\ results' = Append(results, DelegateRow(df_votes, voter, now30, now90, nowMid))
                  /\ reads' = Append(reads, [now30 |-> now30, now90 |-> now90, nowMid |-> nowMid])
                  /\ clock' = nowMid
    /\ UNCHANGED <<data, pc, df_votes, call, out>>

LoopDone == pc = "analyzing" /\ Len(results) = Len(UniqueVoters(df_votes, {}))

ReturnAnalyze ==
    /\ LoopDone
    /\ call.op = "analyze_all_delegates"
    /\ out' = AnalyzeResult(results)
    /\ pc' = "done"
    /\ UNCHANGED <<data, clock, df_votes, call, results, reads>>

ReturnSummary ==
    /\ LoopDone
    /\ call.op = "get_health_summary"
    /\ out' = HealthSummary(AnalyzeResult(results))
    /\ pc' = "done"
    /\ UNCHANGED <<data, clock, df_votes, call, results, reads>>

ReturnTargets ==
    /\ LoopDone
    /\ call.op = "get_high_value_targets"
    /\ out' = HighValueTargets(AnalyzeResult(results), df_votes, call.min_vp)
    /\ pc' = "done"
    /\ UNCHANGED <<data, clock, df_votes, call, results, reads>>

Next ==
    \/ Construct
    \/ CallParticipationRate
    \/ CallFatigueIndex
    \/ BeginAnalyze
    \/ BeginSummary
    \/ BeginTargets
    \/ AnalyzeVoter
    \/ ReturnAnalyze
    \/ ReturnSummary
    \/ ReturnTargets

Spec == Init /\ [][Next]_vars


\* ------------------------------------------- the dataset, read without the
\* analyzer: what the properties below compare the results with
VotePositions == {kj \in (1..MaxProposals) \X (1..MaxVotes) :
                    kj[1] <= Len(data) /\ kj[2] <= Len(data[kj[1]].votes)}
VoteAt(kj) == data[kj[1]].votes[kj[2]]
VotesOf(voter) == {kj \in VotePositions : VoteAt(kj).voter = voter}
DatasetVoters == {VoteAt(kj).voter : kj \in VotePositions}
OlderVotesOf(voter, now) ==
    {kj \in VotesOf(voter) : VoteAt(kj).created < now - TrendDays * TicksPerDay}

ProposalsInWindow(now, window_days) ==
    {k \in 1..Len(data) : data[k].created >= now - window_days * TicksPerDay}
VotedInWindow(voter, now, window_days) ==
    {k \in ProposalsInWindow(now, window_days) :
        \E j \in 1..Len(data[k].votes) : data[k].votes[j].voter = voter}

\* the voter's vote times in ascending order: the non-decreasing sequence in
\* which every time occurs as often as among the voter's votes
TimelineOf(voter) ==
    CHOOSE s \in [1..Cardinality(VotesOf(voter)) -> Times] :
        /\ \A i \in 1..(Len(s) - 1) : s[i] <= s[i + 1]
        /\ \A t \in Times :
              Cardinality({i \in 1..Len(s) : s[i] = t})
                = Cardinality({kj \in VotesOf(voter) : VoteAt(kj).created = t})
DayGap(s, i) == (s[i + 1] - s[i]) \div TicksPerDay
GapTotal(s) == SumSeq([i \in 1..(Len(s) - 1) |-> DayGap(s, i)])

VotingPowerAt(kj) == IF "vp" \in DOMAIN VoteAt(kj) THEN VoteAt(kj).vp ELSE 0
RECURSIVE TotalVP(_)
TotalVP(S) ==
    IF S = {} THEN 0
    ELSE LET kj == CHOOSE x \in S : TRUE IN VotingPowerAt(kj) + TotalVP(S \ {kj})
\* the mean voting power of the voter's votes, truncated: the largest m with
\* m * count <= total
TruncatedMeanVP(voter) ==
    CHOOSE m \in 0..MaxVP :
        /\ m * Cardinality(VotesOf(voter)) <= TotalVP(VotesOf(voter))
        /\ (m + 1) * Cardinality(VotesOf(voter)) > TotalVP(VotesOf(voter))

FatigueCalled == pc = "done" /\ call.op = "calculate_fatigue_index"
ParticipationCalled == pc = "done" /\ call.op = "calculate_participation_rate"
TargetsReturned == pc = "done" /\ call.op = "get_high_value_targets"
AnalyzeReturned == pc = "done" /\ call.op = "analyze_all_delegates"

\* ------------------------------------------------------------- properties

\* C1: on a dataset without any vote (no proposal, or only proposals with
\* empty vote lists) the analyzer is constructed without raising, so that
\* analyze_all_delegates and get_health_summary can run on it.
C1_EmptyDatasetConstructs ==
    (pc # "loaded" /\ VotePositions = {}) => pc # "raised"

\* C2 as stated: calculate_fatigue_index returns trend new_delegate exactly
\* when the voter has no vote older than now - 90 days, whatever the number
\* of the voter's votes.
C2_NewDelegateIffNoOlderVote ==
    FatigueCalled =>
        (out.trend = "new_delegate" <=> OlderVotesOf(call.voter, call.now) = {})

\* C2 amended: for a voter with at least two votes, trend is new_delegate
\* exactly when no vote of the voter is older than now - 90 days; for a voter
\* with fewer than two votes trend is insufficient_data.
C2_NewDelegateIffNoOlderVoteOfTwo ==
    FatigueCalled =>
        IF Cardinality(VotesOf(call.voter)) >= 2
        THEN out.trend = "new_delegate" <=> OlderVotesOf(call.voter, call.now) = {}
        ELSE out.trend = "insufficient_data"

C2_Witness ==
    /\ FatigueCalled
    /\ Cardinality(VotesOf(call.voter)) >= 2
    /\ OlderVotesOf(call.voter, call.now) = {}
    /\ out.trend = "new_delegate"
    /\ \E kj \in VotesOf(call.voter) : VoteAt(kj).created = call.now - TrendDays * TicksPerDay

\* C3: the rate returned by calculate_participation_rate is the number of
\* in-window proposals the voter voted on over the number of all proposals
\* of the dataset created in the window, voted on or not (0.0 when there is
\* none).
C3_DenominatorCountsEveryProposal ==
    ParticipationCalled =>
        LET inWindow == Cardinality(ProposalsInWindow(call.now, call.window_days))
            voted == Cardinality(VotedInWindow(call.voter, call.now, call.window_days))
        IN IF inWindow = 0 THEN out.num = 0
           ELSE out.num * inWindow = voted * out.den

\* C4: calculate_participation_rate returns a value in [0, 1] for every voter
\* and window, 0.0 when no proposal is in the window, and its numerator counts
\* an in-window proposal once however many votes the voter has on it.
C4_RateInUnitInterval ==
    ParticipationCalled =>
        /\ out.den >= 1
        /\ 0 <= out.num /\ out.num <= out.den
        /\ ProposalsInWindow(call.now, call.window_days) = {} => out.num = 0
        /\ out.num = Cardinality(VotedInWindow(call.voter, call.now, call.window_days))

C4_Witness ==
    /\ ParticipationCalled
    /\ out.num = 1
    /\ \E k \in ProposalsInWindow(call.now, call.window_days) :
          /\ Len(data[k].votes) = 2
          /\ \A j \in 1..2 : data[k].votes[j].voter = call.voter

\* C5: the fatigue_score of calculate_fatigue_index is in [0, 100] and is
\* min(100, longest_break_days + 50 if burnout_detected + 20 if declining),
\* longest_break_days being the largest whole-day gap between consecutive
\* votes of the voter in time order, which is never negative.
C5_ScoreClamped ==
    FatigueCalled =>
        LET s == TimelineOf(call.voter)
            raw == out.longest_break_days
                   + (IF out.burnout_detected THEN 50 ELSE 0)
                   + (IF out.trend = "declining" THEN 20 ELSE 0)
        IN /\ 0 <= out.fatigue_score /\ out.fatigue_score <= 100
           /\ out.fatigue_score = (IF raw > 100 THEN 100 ELSE raw)
           /\ out.longest_break_days >= 0
           /\ \A i \in 1..(Len(s) - 1) : DayGap(s, i) <= out.longest_break_days
           /\ Len(s) >= 2 => \E i \in 1..(Len(s) - 1) : DayGap(s, i) = out.longest_break_days

C5_Witness ==
    /\ FatigueCalled
    /\ out.longest_break_days + (IF out.burnout_detected THEN 50 ELSE 0)
         + (IF out.trend = "declining" THEN 20 ELSE 0) > 100
    /\ out.fatigue_score = 100

\* C6: burnout_detected is true exactly when the voter has at least two votes
\* and the whole-day gap between the two most recent votes is greater than
\* twice the mean of all the voter's consecutive whole-day gaps.
C6_BurnoutIffRecentGapOverTwiceMean ==
    FatigueCalled =>
        LET s == TimelineOf(call.voter)
            n == Len(s) - 1
        IN out.burnout_detected <=>
              (Len(s) >= 2 /\ DayGap(s, n) * n > 2 * GapTotal(s))

C6_Witness ==
    /\ FatigueCalled
    /\ out.burnout_detected
    /\ Cardinality(VotesOf(call.voter)) >= 4

RowsOf(table, voter) == {k \in 1..Len(table) : table[k]["delegate"] = voter}

C8_TargetsSorted ==
    TargetsReturned =>
        \A k \in 1..(Len(out) - 1) :
            /\ out[k]["avg_voting_power"] >= out[k + 1]["avg_voting_power"]
            /\ out[k]["avg_voting_power"] = out[k + 1]["avg_voting_power"]
                  => out[k]["fatigue_score"] >= out[k + 1]["fatigue_score"]

C8_Witness ==
    /\ TargetsReturned
    /\ Len(out) = 2
    /\ out[1]["avg_voting_power"] > out[2]["avg_voting_power"]
    /\ out[1]["fatigue_score"] < out[2]["fatigue_score"]

\* C9: within one run of analyze_all_delegates every cutoff and every trend
\* midpoint, of every voter, is computed from the same value of now.
C9_OneNowPerRun ==
    \A i, j \in 1..Len(reads) :
        /\ reads[i].now30 = reads[i].now90
        /\ reads[i].now90 = reads[i].nowMid
        /\ reads[i].now30 = reads[j].now30

\* C10: analyze_all_delegates returns exactly one row per distinct voter of
\* the dataset, and every row carries total_votes, the number of vote records
\* of its voter.
C10_OneRowPerVoterWithTotalVotes ==
    AnalyzeReturned =>
        /\ {out[k]["delegate"] : k \in 1..Len(out)} = DatasetVoters
        /\ \A v \in DatasetVoters : Cardinality(RowsOf(out, v)) = 1
        /\ \A k \in 1..Len(out) :
              /\ "total_votes" \in DOMAIN out[k]
              /\ out[k]["total_votes"] = Cardinality(VotesOf(out[k]["delegate"]))

====
